---- MODULE Spec2Model ----
(***************************************************************************)
(* Wallet page of 5eh/Moch-Exam (src/src/app/page.tsx): the React state of *)
(* the Page component, its handlers (connectWallet, sendTransaction, the   *)
(* provider listeners, the balance interval, the history fetch) and the    *)
(* promises they await.  A handler runs atomically up to its next await;   *)
(* every await is a separate step whose outcome the wallet, the RPC node   *)
(* or the explorer chooses.                                                *)
(*                                                                         *)
(* Strings that the code parses (the amount, the balance slot, the         *)
(* recipient) are sequences of one-character strings; strings that are     *)
(* only stored and compared (messages, statuses, account addresses) are    *)
(* TLA+ strings.  Wei amounts are decimal digit sequences (BigInt), most   *)
(* significant digit first, <<>> being zero.                               *)
(***************************************************************************)
EXTENDS Integers, Sequences, FiniteSets, Bags, TLC

\* ------------------------------------------------------------------------
\* Bounds of the model

\* connectWallet calls and detached getBalance calls in flight at once
MaxCalls == 1
\* getLastTransactions calls in flight at once
MaxFetch == 1
\* longest account list the wallet hands over
MaxAccounts == 2

\* ------------------------------------------------------------------------
\* Program constants

\* OPBNB_TESTNET_CONFIG.chainId, the text "0x15eb"
ConfigChainId == <<"0", "x", "1", "5", "e", "b">>
\* the "network unknown" code of wallet_switchEthereumChain
UnknownChainCode == 4902
\* decimals of the "ether" unit (OPBNB_TESTNET_CONFIG.nativeCurrency.decimals)
EtherDecimals == 18
\* decimals of the "wei" unit
WeiDecimals == 0
\* toFixed(4)
DisplayDigits == 4
\* hex digits of an address
AddressHexLen == 40

SwitchFailedMsg == "Failed to switch to opBNB Testnet. Please switch manually."
WrongNetworkMsg == "Please switch to opBNB Testnet"
NoWalletConnectMsg == "No wallet found! Please install MetaMask."
NoWalletSendMsg == "No wallet found!"
UnknownErrorMsg == "An unknown error occurred"
TransactionFailedMsg == "Transaction failed"
InvalidRecipientMsg == "Invalid recipient address"
AmountNotPositiveMsg == "Amount must be greater than 0"
InsufficientBalanceMsg == "Insufficient balance"
InvalidAmountMsg == "Invalid amount"

StatusInitiating == "Initiating transaction..."
StatusConfirmInWallet == "Please confirm the transaction in your wallet..."
StatusSubmitted == "Transaction submitted! Waiting for confirmation..."
StatusConfirmed == "Transaction confirmed!"
StatusFailed == "Transaction failed!"

\* ------------------------------------------------------------------------
\* Text and BigInt helpers (ethers.parseUnits, ethers.formatEther,
\* parseFloat(..).toFixed(4), ethers.isAddress)

DigitChars == <<"0", "1", "2", "3", "4", "5", "6", "7", "8", "9">>
HexLetters == {"a", "b", "c", "d", "e", "f"}

IsDigit(c) == \E i \in 1..10 : DigitChars[i] = c
DigitVal(c) == (CHOOSE i \in 1..10 : DigitChars[i] = c) - 1
DigitChar(d) == DigitChars[d + 1]
AllDigits(s) == \A i \in 1..Len(s) : IsDigit(s[i])
Rep(c, n) == [i \in 1..n |-> c]

\* index of the first "." of s, 0 when there is none
DotIndex(s) ==
  IF \E i \in 1..Len(s) : s[i] = "."
  THEN CHOOSE i \in 1..Len(s) : s[i] = "." /\ \A j \in 1..(i - 1) : s[j] # "."
  ELSE 0

\* a sequence of digit characters without its leading zeros
RECURSIVE StripZeros(_)
StripZeros(s) ==
  IF s # <<>> /\ Head(s) = "0" THEN StripZeros(Tail(s)) ELSE s

\* a sequence of digit characters without its trailing zeros
RECURSIVE StripTrailingZeros(_)
StripTrailingZeros(s) ==
  IF s # <<>> /\ s[Len(s)] = "0"
  THEN StripTrailingZeros(SubSeq(s, 1, Len(s) - 1))
  ELSE s

ParseFailed == [ok |-> FALSE, neg |-> FALSE, mag |-> <<>>]

\* ethers.parseUnits(text, unit) with `decimals` the decimals of the unit:
\* the text must match ^(-?)([0-9]*)\.?([0-9]*)$ with at least one digit, and
\* the fraction beyond `decimals` must be zeros; otherwise it throws.
ParseUnits(text, decimals) ==
  LET neg == text # <<>> /\ Head(text) = "-"
      body == IF neg THEN Tail(text) ELSE text
      dot == DotIndex(body)
      whole == IF dot = 0 THEN body ELSE SubSeq(body, 1, dot - 1)
      frac == IF dot = 0 THEN <<>> ELSE SubSeq(body, dot + 1, Len(body))
      kept == IF Len(frac) >= decimals
              THEN SubSeq(frac, 1, decimals)
              ELSE frac \o Rep("0", decimals - Len(frac))
      extra == IF Len(frac) > decimals
               THEN SubSeq(frac, decimals + 1, Len(frac))
               ELSE <<>>
  IN IF /\ AllDigits(whole)
        /\ AllDigits(frac)
        /\ Len(whole) + Len(frac) > 0
        /\ \A i \in 1..Len(extra) : extra[i] = "0"
     THEN [ok |-> TRUE, neg |-> neg, mag |-> StripZeros(whole \o kept)]
     ELSE ParseFailed

\* a < b for magnitudes (digit sequences without leading zeros)
MagLess(a, b) ==
  \/ Len(a) < Len(b)
  \/ /\ Len(a) = Len(b)
     /\ \E i \in 1..Len(a) :
          /\ DigitVal(a[i]) < DigitVal(b[i])
          /\ \A j \in 1..(i - 1) : a[j] = b[j]

\* BigInt comparisons of parsed values
IsZero(v) == v.mag = <<>>
LeqZero(v) == v.neg \/ IsZero(v)
BigGreater(a, b) ==
  IF LeqZero(a) /\ LeqZero(b)
  THEN IF a.neg /\ ~IsZero(a)
       THEN b.neg /\ MagLess(a.mag, b.mag)
       ELSE b.neg /\ ~IsZero(b)
  ELSE IF LeqZero(a) THEN FALSE
  ELSE IF LeqZero(b) THEN TRUE
  ELSE MagLess(b.mag, a.mag)

\* a digit sequence plus one
RECURSIVE Increment(_)
Increment(s) ==
  IF s = <<>> THEN <<"1">>
  ELSE IF s[Len(s)] = "9"
       THEN Increment(SubSeq(s, 1, Len(s) - 1)) \o <<"0">>
       ELSE SubSeq(s, 1, Len(s) - 1) \o <<DigitChar(DigitVal(s[Len(s)]) + 1)>>

\* ethers.formatEther(wei): the whole part, a dot and the 18-digit fraction
\* without trailing zeros (at least one fraction digit)
FormatEther(wei) ==
  LET padded == IF Len(wei) > EtherDecimals
                THEN wei
                ELSE Rep("0", EtherDecimals + 1 - Len(wei)) \o wei
      cut == Len(padded) - EtherDecimals
      frac == StripTrailingZeros(SubSeq(padded, cut + 1, Len(padded)))
  IN SubSeq(padded, 1, cut) \o <<".">> \o (IF frac = <<>> THEN <<"0">> ELSE frac)

\* parseFloat(text).toFixed(4) of a non-negative decimal text: rounded to
\* four fraction digits, half up
ToFixed4(text) ==
  LET dot == DotIndex(text)
      whole == SubSeq(text, 1, dot - 1)
      frac == SubSeq(text, dot + 1, Len(text))
      padded == frac \o Rep("0", DisplayDigits + 1)
      kept == whole \o SubSeq(padded, 1, DisplayDigits)
      up == DigitVal(padded[DisplayDigits + 1]) >= 5
      rounded == IF up THEN Increment(kept) ELSE kept
      cut == Len(rounded) - DisplayDigits
      intPart == StripZeros(SubSeq(rounded, 1, cut))
  IN (IF intPart = <<>> THEN <<"0">> ELSE intPart)
       \o <<".">> \o SubSeq(rounded, cut + 1, Len(rounded))

\* the balance slot after a successful query (page.tsx 115-116)
DisplayBalance(wei) == ToFixed4(FormatEther(wei))

\* ethers.isAddress(text) for lower-case input: an optional 0x and 40 hex digits
IsAddress(text) ==
  LET body == IF Len(text) >= 2 /\ text[1] = "0" /\ text[2] = "x"
              THEN SubSeq(text, 3, Len(text))
              ELSE text
  IN /\ Len(body) = AddressHexLen
     /\ \A i \in 1..Len(body) : IsDigit(body[i]) \/ body[i] \in HexLetters

\* parseInt(text, 16) of a 0x-prefixed lower-case hex text
HexDigits == <<"0", "1", "2", "3", "4", "5", "6", "7", "8", "9",
               "a", "b", "c", "d", "e", "f">>
HexVal(c) == (CHOOSE i \in 1..16 : HexDigits[i] = c) - 1
RECURSIVE HexNumber(_)
HexNumber(s) ==
  IF s = <<>> THEN 0
  ELSE 16 * HexNumber(SubSeq(s, 1, Len(s) - 1)) + HexVal(s[Len(s)])
ParseIntHex(text) == HexNumber(SubSeq(text, 3, Len(text)))

\* BigInt(parseInt(OPBNB_TESTNET_CONFIG.chainId, 16))
RequiredChainNumber == ParseIntHex(ConfigChainId)

\* ------------------------------------------------------------------------
\* The outside world the page talks to

\* the chain id texts a wallet can be on: the required one and another one
ChainTexts == {ConfigChainId, <<"0", "x", "6", "1">>}
\* the text a chainChanged event carries for chain number n
ChainText(n) == CHOOSE t \in ChainTexts : ParseIntHex(t) = n
WalletChains == {ParseIntHex(t) : t \in ChainTexts}

Addresses == {"0xa1", "0xa2"}
\* accounts[0] of an empty list
Undefined == "undefined"
AccountLists == UNION {[1..n -> Addresses] : n \in 0..MaxAccounts}
First(accounts) == IF accounts = <<>> THEN Undefined ELSE accounts[1]
\* JavaScript truthiness of the account slot
Truthy(a) == a # "" /\ a # Undefined

\* what a rejected promise carries: an Error with a message, or something else
Thrown == {[isError |-> TRUE, message |-> "User rejected the request."],
           [isError |-> FALSE, message |-> ""]}
\* err instanceof Error ? err.message : fallback
ErrorText(err, fallback) == IF err.isError THEN err.message ELSE fallback
\* the codes a rejected wallet_switchEthereumChain carries
SwitchCodes == {UnknownChainCode, 4001}

\* balances the RPC node reports, in wei: 0.99996 ether and 1 ether
ChainBalances == {<<"9", "9", "9", "9", "6">> \o Rep("0", EtherDecimals - 5),
                  <<"1">> \o Rep("0", EtherDecimals)}
TxHashes == {"0xh1"}

\* what the user can type into the form
ValidRecipient == <<"0", "x">> \o Rep("a", AddressHexLen)
Recipients == {<<>>, ValidRecipient}
Amounts == {<<>>, <<"0">>, <<"1">>}

\* explorer payloads: result lists of raw records
RawTx1 == [hash |-> "0xabc", from |-> "0x1", to |-> "0x2",
           value |-> <<"0", "1", "0">>, timeStamp |-> <<"1", "7">>]
\* a record whose value is not the text of a number
RawTxBad == [RawTx1 EXCEPT !.value = <<"x">>]
RawResults == {<<>>, <<RawTx1>>, <<RawTxBad>>}

\* BigInt(text) of a decimal text of digits
BigIntOf(text) == StripZeros(text)
\* BigInt(text) throws a SyntaxError for a text that is no number
BigIntThrows(text) == ~AllDigits(text)
\* parseInt(text) of a decimal text of digits
RECURSIVE ParseInt(_)
ParseInt(text) ==
  IF text = <<>> THEN 0
  ELSE 10 * ParseInt(SubSeq(text, 1, Len(text) - 1)) + DigitVal(text[Len(text)])
\* the mapping of getLastTransactions (page.tsx 293-299)
FormatTx(tx) == [hash |-> tx.hash, from |-> tx.from, to |-> tx.to,
                 value |-> BigIntOf(tx.value), timestamp |-> ParseInt(tx.timeStamp)]
FormatTxs(result) == [i \in 1..Len(result) |-> FormatTx(result[i])]
\* the mapping throws for some record of the list
FormatThrows(result) == \E i \in 1..Len(result) : BigIntThrows(result[i].value)

\* ------------------------------------------------------------------------
\* State

VARIABLES
  hasProvider,      \* window.ethereum is present
  scanKey,          \* process.env.NEXT_PUBLIC_SCAN is set
  mounted,          \* the page is mounted
  walletChain,      \* the chain number the wallet is on
  account, connected, error, balance, networkError,
  recipientAddress, amount, isLoading, txStatus, txHash, transactions,
  connects,         \* bag of connectWallet calls suspended at an await
  refreshes,        \* bag of detached getBalance calls suspended at an await
  transfers,        \* bag of sendTransaction calls suspended at an await
  fetches,          \* bag of getLastTransactions calls awaiting the explorer
  listeners,        \* the account each registered listener pair closed over
  intervals         \* the account each installed balance interval closed over

environment == <<hasProvider, scanKey, mounted>>
slots == <<account, connected, error, balance, networkError, recipientAddress,
           amount, isLoading, txStatus, txHash, transactions>>
calls == <<connects, refreshes, transfers, fetches>>
effects == <<listeners, intervals>>
vars == <<environment, walletChain, slots, calls, effects>>

Add(bag, e) == bag (+) SetToBag({e})
Remove(bag, e) == bag (-) SetToBag({e})
Jobs(bag) == BagToSet(bag)

Init ==
  /\ hasProvider \in BOOLEAN
  /\ scanKey \in BOOLEAN
  /\ mounted = TRUE
  /\ walletChain \in WalletChains
  /\ account = ""
  /\ connected = FALSE
  /\ error = ""
  /\ balance = <<"0">>
  /\ networkError = ""
  /\ recipientAddress = <<>>
  /\ amount = <<>>
  /\ isLoading = FALSE
  /\ txStatus = ""
  /\ txHash = ""
  /\ transactions = <<>>
  /\ connects = EmptyBag
  /\ refreshes = EmptyBag
  /\ transfers = EmptyBag
  /\ fetches = EmptyBag
  /\ listeners = IF hasProvider THEN {""} ELSE {}
  /\ intervals = {}

\* ------------------------------------------------------------------------
\* Effects (page.tsx 217-278): run when the render that follows a step
\* changed their dependencies; the cleanup of the previous run comes first.

DepsChanged == account' # account \/ connected' # connected
\* connected && account
TimerOn(c, a) == c /\ Truthy(a)

\* Mutant of ListenerEffect: the cleanup does not remove the listeners
ListenerEffectNoCleanup ==
  listeners' = IF account' # account /\ hasProvider
               THEN listeners \cup {account'}
               ELSE listeners

\* useEffect(.., [account]): the provider listeners (page.tsx 217-255)
ListenerEffect ==
  listeners' = IF account' # account /\ hasProvider
               THEN (listeners \ {account}) \cup {account'}
               ELSE listeners

\* Mutant of IntervalEffect: the cleanup does not clear the interval
IntervalEffectNoCleanup ==
  intervals' = IF DepsChanged
               THEN intervals
                    \cup (IF TimerOn(connected', account') THEN {account'} ELSE {})
               ELSE intervals

\* useEffect(.., [connected, account]): the balance interval (page.tsx 257-272)
IntervalEffect ==
  intervals' = IF DepsChanged
               THEN (IF TimerOn(connected, account)
                     THEN intervals \ {account}
                     ELSE intervals)
                    \cup (IF TimerOn(connected', account') THEN {account'} ELSE {})
               ELSE intervals

\* useEffect(.., [connected, account]): the history fetch (page.tsx 274-278),
\* with the start of getLastTransactions (page.tsx 280-289)
HistoryEffect ==
  IF DepsChanged /\ TimerOn(connected', account') /\ scanKey
  THEN /\ BagCardinality(fetches) < MaxFetch
       /\ fetches' = Add(fetches, [address |-> account'])
  ELSE fetches' = fetches

RunEffects == ListenerEffect /\ IntervalEffect /\ HistoryEffect

\* ------------------------------------------------------------------------
\* getBalance (page.tsx 103-122)

\* network.chainId !== BigInt(parseInt(OPBNB_TESTNET_CONFIG.chainId, 16))
WrongNetwork == walletChain # RequiredChainNumber

\* getBalance(address) up to its first await: a call suspended at getNetwork();
\* the step that starts it has already settled connects'
StartGetBalance(address) ==
  IF hasProvider
  THEN /\ BagCardinality(refreshes) + BagCardinality(connects') < MaxCalls
       /\ refreshes' = Add(refreshes, [address |-> address, pc |-> "network"])
  ELSE refreshes' = refreshes

\* Mutant of GetNetworkResolved: a wrong network disconnects the session
GetNetworkResolvedDisconnects(j) ==
  /\ j \in Jobs(refreshes) /\ j.pc = "network"
  /\ IF WrongNetwork
     THEN /\ networkError' = WrongNetworkMsg
          /\ connected' = FALSE
          /\ refreshes' = Remove(refreshes, j)
     ELSE /\ networkError' = networkError
          /\ connected' = connected
          /\ refreshes' = Add(Remove(refreshes, j), [j EXCEPT !.pc = "balance"])
  /\ UNCHANGED <<environment, walletChain, account, error, balance,
                 recipientAddress, amount, isLoading, txStatus, txHash,
                 transactions, connects, transfers>>
  /\ RunEffects

\* provider.getNetwork() answered
GetNetworkResolved(j) ==
  /\ j \in Jobs(refreshes) /\ j.pc = "network"
  /\ IF WrongNetwork
     THEN /\ networkError' = WrongNetworkMsg
          /\ refreshes' = Remove(refreshes, j)
     ELSE /\ networkError' = networkError
          /\ refreshes' = Add(Remove(refreshes, j), [j EXCEPT !.pc = "balance"])
  /\ UNCHANGED <<environment, walletChain, account, connected, error, balance,
                 recipientAddress, amount, isLoading, txStatus, txHash,
                 transactions, connects, transfers, fetches, effects>>

\* Mutant of GetNetworkRejected: a failed network lookup leaves the balance
GetNetworkRejectedSilent(j) ==
  /\ j \in Jobs(refreshes) /\ j.pc = "network"
  /\ refreshes' = Remove(refreshes, j)
  /\ UNCHANGED <<environment, walletChain, account, connected, error, balance,
                 networkError, recipientAddress, amount, isLoading, txStatus,
                 txHash, transactions, connects, transfers, fetches, effects>>

\* provider.getNetwork() failed
GetNetworkRejected(j) ==
  /\ j \in Jobs(refreshes) /\ j.pc = "network"
  /\ balance' = <<"E", "r", "r", "o", "r">>
  /\ refreshes' = Remove(refreshes, j)
  /\ UNCHANGED <<environment, walletChain, account, connected, error,
                 networkError, recipientAddress, amount, isLoading, txStatus,
                 txHash, transactions, connects, transfers, fetches, effects>>

\* provider.getBalance(address) answered with wei
GetBalanceResolved(j, wei) ==
  /\ j \in Jobs(refreshes) /\ j.pc = "balance"
  /\ j.address # Undefined
  /\ balance' = DisplayBalance(wei)
  /\ networkError' = ""
  /\ refreshes' = Remove(refreshes, j)
  /\ UNCHANGED <<environment, walletChain, account, connected, error,
                 recipientAddress, amount, isLoading, txStatus, txHash,
                 transactions, connects, transfers, fetches, effects>>

\* provider.getBalance(address) failed (it always does for an undefined address)
GetBalanceRejected(j) ==
  /\ j \in Jobs(refreshes) /\ j.pc = "balance"
  /\ balance' = <<"E", "r", "r", "o", "r">>
  /\ refreshes' = Remove(refreshes, j)
  /\ UNCHANGED <<environment, walletChain, account, connected, error,
                 networkError, recipientAddress, amount, isLoading, txStatus,
                 txHash, transactions, connects, transfers, fetches, effects>>

\* the interval's callback (page.tsx 262-264)
Tick(a) ==
  /\ a \in intervals
  /\ UNCHANGED <<environment, walletChain, slots, connects, transfers, fetches,
                 effects>>
  /\ StartGetBalance(a)

\* ------------------------------------------------------------------------
\* checkAndSwitchNetwork (page.tsx 77-101) and connectWallet (page.tsx 148-171)

\* a connectWallet call suspended at an await: where it is, and the code of the
\* switchError its catch block holds (NoCode outside the catch block)
NoCode == 0
ConnectCall(pc, code) == [pc |-> pc, code |-> code]

\* connectWallet without a wallet: the throw of line 151 lands in the catch
ConnectWalletNoProvider ==
  /\ mounted
  /\ ~hasProvider
  /\ error' = NoWalletConnectMsg
  /\ connected' = FALSE
  /\ UNCHANGED <<environment, walletChain, account, balance, networkError,
                 recipientAddress, amount, isLoading, txStatus, txHash,
                 transactions, connects, refreshes, transfers>>
  /\ RunEffects

\* connectWallet up to the await of wallet_switchEthereumChain
ConnectWallet ==
  /\ mounted
  /\ hasProvider
  /\ BagCardinality(connects) + BagCardinality(refreshes) < MaxCalls
  /\ connects' = Add(connects, ConnectCall("switch", NoCode))
  /\ UNCHANGED <<environment, walletChain, slots, refreshes, transfers, fetches,
                 effects>>

\* wallet_switchEthereumChain granted: the wallet is on the required chain
SwitchResolved(j) ==
  /\ j \in Jobs(connects) /\ j.pc = "switch"
  /\ walletChain' = RequiredChainNumber
  /\ networkError' = ""
  /\ connects' = Add(Remove(connects, j), ConnectCall("request", NoCode))
  /\ UNCHANGED <<environment, account, connected, error, balance,
                 recipientAddress, amount, isLoading, txStatus, txHash,
                 transactions, refreshes, transfers, fetches, effects>>

\* Mutant of SwitchRejected: an error other than "network unknown" leaves
\* checkAndSwitchNetwork and lands in the catch of connectWallet
SwitchRejectedPropagates(j, code) ==
  /\ j \in Jobs(connects) /\ j.pc = "switch"
  /\ IF code = UnknownChainCode
     THEN /\ connects' = Add(Remove(connects, j), ConnectCall("add", code))
          /\ UNCHANGED <<error, connected>>
     ELSE /\ connects' = Remove(connects, j)
          /\ error' = UnknownErrorMsg
          /\ connected' = FALSE
  /\ UNCHANGED <<environment, walletChain, account, balance, networkError,
                 recipientAddress, amount, isLoading, txStatus, txHash,
                 transactions, refreshes, transfers>>
  /\ RunEffects

\* Mutant of SwitchRejected: every rejection falls back to registering the chain
SwitchRejectedAlwaysAdds(j, code) ==
  /\ j \in Jobs(connects) /\ j.pc = "switch"
  /\ connects' = Add(Remove(connects, j), ConnectCall("add", code))
  /\ UNCHANGED <<environment, walletChain, account, connected, error, balance,
                 networkError, recipientAddress, amount, isLoading, txStatus,
                 txHash, transactions, refreshes, transfers, fetches, effects>>

\* wallet_switchEthereumChain rejected with `code`
SwitchRejected(j, code) ==
  /\ j \in Jobs(connects) /\ j.pc = "switch"
  /\ IF code = UnknownChainCode
     THEN /\ networkError' = networkError
          /\ connects' = Add(Remove(connects, j), ConnectCall("add", code))
     ELSE /\ networkError' = SwitchFailedMsg
          /\ connects' = Add(Remove(connects, j), ConnectCall("request", NoCode))
  /\ UNCHANGED <<environment, walletChain, account, connected, error, balance,
                 recipientAddress, amount, isLoading, txStatus, txHash,
                 transactions, refreshes, transfers, fetches, effects>>

\* wallet_addEthereumChain granted; the wallet may or may not move to the chain
AddResolved(j, chain) ==
  /\ j \in Jobs(connects) /\ j.pc = "add"
  /\ chain \in {walletChain, RequiredChainNumber}
  /\ walletChain' = chain
  /\ networkError' = ""
  /\ connects' = Add(Remove(connects, j), ConnectCall("request", NoCode))
  /\ UNCHANGED <<environment, account, connected, error, balance,
                 recipientAddress, amount, isLoading, txStatus, txHash,
                 transactions, refreshes, transfers, fetches, effects>>

\* wallet_addEthereumChain rejected
AddRejected(j) ==
  /\ j \in Jobs(connects) /\ j.pc = "add"
  /\ networkError' = SwitchFailedMsg
  /\ connects' = Add(Remove(connects, j), ConnectCall("request", NoCode))
  /\ UNCHANGED <<environment, walletChain, account, connected, error, balance,
                 recipientAddress, amount, isLoading, txStatus, txHash,
                 transactions, refreshes, transfers, fetches, effects>>

\* eth_requestAccounts granted with `accounts` (page.tsx 160-164)
RequestAccountsResolved(j, accounts) ==
  /\ j \in Jobs(connects) /\ j.pc = "request"
  /\ account' = First(accounts)
  /\ connected' = TRUE
  /\ error' = ""
  /\ connects' = Remove(connects, j)
  /\ StartGetBalance(First(accounts))
  /\ UNCHANGED <<environment, walletChain, balance, networkError,
                 recipientAddress, amount, isLoading, txStatus, txHash,
                 transactions, transfers>>
  /\ RunEffects

\* eth_requestAccounts rejected with `err` (page.tsx 165-170)
RequestAccountsRejected(j, err) ==
  /\ j \in Jobs(connects) /\ j.pc = "request"
  /\ error' = ErrorText(err, UnknownErrorMsg)
  /\ connected' = FALSE
  /\ connects' = Remove(connects, j)
  /\ UNCHANGED <<environment, walletChain, account, balance, networkError,
                 recipientAddress, amount, isLoading, txStatus, txHash,
                 transactions, refreshes, transfers>>
  /\ RunEffects

\* ------------------------------------------------------------------------
\* Provider events (page.tsx 218-239); a handler runs when it is registered

\* Mutant of handleAccountsChanged: an empty list does not reset the balance
handleAccountsChangedKeepsBalance(accounts) ==
  /\ listeners # {}
  /\ IF Len(accounts) > 0
     THEN /\ account' = accounts[1]
          /\ UNCHANGED <<connected, balance, connects>>
          /\ StartGetBalance(accounts[1])
     ELSE /\ account' = ""
          /\ connected' = FALSE
          /\ UNCHANGED <<balance, refreshes, connects>>
  /\ UNCHANGED <<environment, walletChain, error, networkError,
                 recipientAddress, amount, isLoading, txStatus, txHash,
                 transactions, transfers>>
  /\ RunEffects

\* Mutant of handleAccountsChanged: a non-empty list marks the session connected
handleAccountsChangedConnects(accounts) ==
  /\ listeners # {}
  /\ IF Len(accounts) > 0
     THEN /\ account' = accounts[1]
          /\ connected' = TRUE
          /\ UNCHANGED <<balance, connects>>
          /\ StartGetBalance(accounts[1])
     ELSE /\ account' = ""
          /\ connected' = FALSE
          /\ balance' = <<"0">>
          /\ UNCHANGED <<refreshes, connects>>
  /\ UNCHANGED <<environment, walletChain, error, networkError,
                 recipientAddress, amount, isLoading, txStatus, txHash,
                 transactions, transfers>>
  /\ RunEffects

handleAccountsChanged(accounts) ==
  /\ listeners # {}
  /\ IF Len(accounts) > 0
     THEN /\ account' = accounts[1]
          /\ UNCHANGED <<connected, balance, connects>>
          /\ StartGetBalance(accounts[1])
     ELSE /\ account' = ""
          /\ connected' = FALSE
          /\ balance' = <<"0">>
          /\ UNCHANGED <<refreshes, connects>>
  /\ UNCHANGED <<environment, walletChain, error, networkError,
                 recipientAddress, amount, isLoading, txStatus, txHash,
                 transactions, transfers>>
  /\ RunEffects

\* Mutant of handleChainChanged: another chain does not zero the balance
handleChainChangedKeepsBalance(chain, closed) ==
  /\ closed \in listeners
  /\ walletChain' = chain
  /\ balance' = balance
  /\ IF ChainText(chain) # ConfigChainId
     THEN /\ networkError' = WrongNetworkMsg
          /\ UNCHANGED <<refreshes, connects>>
     ELSE /\ networkError' = ""
          /\ connects' = connects
          /\ IF Truthy(closed)
             THEN StartGetBalance(closed)
             ELSE UNCHANGED refreshes
  /\ UNCHANGED <<environment, account, connected, error, recipientAddress,
                 amount, isLoading, txStatus, txHash, transactions,
                 transfers, fetches, effects>>

\* the wallet moved to chain `chain`; `closed` is the account the handler
\* closed over
handleChainChanged(chain, closed) ==
  /\ closed \in listeners
  /\ walletChain' = chain
  /\ IF ChainText(chain) # ConfigChainId
     THEN /\ networkError' = WrongNetworkMsg
          /\ balance' = <<"0">>
          /\ UNCHANGED <<refreshes, connects>>
     ELSE /\ networkError' = ""
          /\ balance' = balance
          /\ connects' = connects
          /\ IF Truthy(closed)
             THEN StartGetBalance(closed)
             ELSE UNCHANGED refreshes
  /\ UNCHANGED <<environment, account, connected, error, recipientAddress,
                 amount, isLoading, txStatus, txHash, transactions,
                 transfers, fetches, effects>>

\* ------------------------------------------------------------------------
\* The transfer form (page.tsx 329-381): rendered while connected, its inputs
\* and its button disabled while isLoading

FormEnabled == connected /\ ~isLoading

\* onChange of the recipient input (page.tsx 351)
setRecipientAddress(text) ==
  /\ FormEnabled
  /\ recipientAddress' = text
  /\ UNCHANGED <<environment, walletChain, account, connected, error, balance,
                 networkError, amount, isLoading, txStatus, txHash,
                 transactions, calls, effects>>

\* Mutant of setAmount: the input is not disabled while isLoading
setAmountWhileBusy(text) ==
  /\ connected
  /\ amount' = text
  /\ UNCHANGED <<environment, walletChain, account, connected, error, balance,
                 networkError, recipientAddress, isLoading, txStatus, txHash,
                 transactions, calls, effects>>

\* onChange of the amount input (page.tsx 365)
setAmount(text) ==
  /\ FormEnabled
  /\ amount' = text
  /\ UNCHANGED <<environment, walletChain, account, connected, error, balance,
                 networkError, recipientAddress, isLoading, txStatus, txHash,
                 transactions, calls, effects>>

\* validateTransaction (page.tsx 124-146): the message it leaves in the error
\* slot, "" when it returns true
ValidationError(recipient, amountText, balanceText) ==
  IF ~IsAddress(recipient) THEN InvalidRecipientMsg
  ELSE LET amountWei == ParseUnits(amountText, WeiDecimals)
           balanceWei == ParseUnits(balanceText, EtherDecimals)
       IN IF ~amountWei.ok THEN InvalidAmountMsg
          ELSE IF LeqZero(amountWei) THEN AmountNotPositiveMsg
          ELSE IF ~balanceWei.ok THEN InvalidAmountMsg
          ELSE IF BigGreater(amountWei, balanceWei) THEN InsufficientBalanceMsg
          ELSE ""

validateTransaction == ValidationError(recipientAddress, amount, balance)

\* sendTransaction stopped by validateTransaction (page.tsx 176)
SubmitRejected ==
  /\ FormEnabled
  /\ validateTransaction # ""
  /\ error' = validateTransaction
  /\ UNCHANGED <<environment, walletChain, account, connected, balance,
                 networkError, recipientAddress, amount, isLoading, txStatus,
                 txHash, transactions, calls, effects>>

\* Mutant of SubmitAccepted: the result of validateTransaction is ignored
SubmitAcceptedUnvalidated ==
  /\ FormEnabled
  /\ txHash' = ""
  /\ error' = ""
  /\ isLoading' = TRUE
  /\ txStatus' = StatusInitiating
  /\ transfers' = Add(transfers, [pc |-> "getSigner",
                                  account |-> account,
                                  recipientAddress |-> recipientAddress,
                                  amount |-> amount])
  /\ UNCHANGED <<environment, walletChain, account, connected, balance,
                 networkError, recipientAddress, amount, transactions,
                 connects, refreshes, fetches, effects>>

\* sendTransaction past validation, up to the await of getSigner()
\* (page.tsx 178-186); the call closes over account, recipientAddress, amount
SubmitAccepted ==
  /\ FormEnabled
  /\ validateTransaction = ""
  /\ txHash' = ""
  /\ IF hasProvider
     THEN /\ error' = ""
          /\ isLoading' = TRUE
          /\ txStatus' = StatusInitiating
          /\ transfers' = Add(transfers, [pc |-> "getSigner",
                                          account |-> account,
                                          recipientAddress |-> recipientAddress,
                                          amount |-> amount])
     ELSE /\ error' = NoWalletSendMsg
          /\ isLoading' = FALSE
          /\ txStatus' = StatusFailed
          /\ transfers' = transfers
  /\ UNCHANGED <<environment, walletChain, account, connected, balance,
                 networkError, recipientAddress, amount, transactions,
                 connects, refreshes, fetches, effects>>

sendTransaction == SubmitRejected \/ SubmitAccepted

\* the request handed to signer.sendTransaction (page.tsx 188-195)
TxRequest(j) == [to |-> j.recipientAddress,
                 value |-> ParseUnits(j.amount, WeiDecimals)]

\* the catch and finally of sendTransaction (page.tsx 208-214)
TransferFailed(j, err) ==
  /\ error' = ErrorText(err, TransactionFailedMsg)
  /\ txStatus' = StatusFailed
  /\ isLoading' = FALSE
  /\ transfers' = Remove(transfers, j)

\* provider.getSigner() answered (page.tsx 186-195)
GetSignerResolved(j) ==
  /\ j \in Jobs(transfers) /\ j.pc = "getSigner"
  /\ txStatus' = StatusConfirmInWallet
  /\ transfers' = Add(Remove(transfers, j), [j EXCEPT !.pc = "send"])
  /\ UNCHANGED <<environment, walletChain, account, connected, error, balance,
                 networkError, recipientAddress, amount, isLoading, txHash,
                 transactions, connects, refreshes, fetches, effects>>

\* Mutant of SendResolved: the hash is not recorded
SendResolvedNoHash(j, hash) ==
  /\ j \in Jobs(transfers) /\ j.pc = "send"
  /\ txStatus' = StatusSubmitted
  /\ transfers' = Add(Remove(transfers, j), [j EXCEPT !.pc = "wait"])
  /\ UNCHANGED <<environment, walletChain, account, connected, error, balance,
                 networkError, recipientAddress, amount, isLoading, txHash,
                 transactions, connects, refreshes, fetches, effects>>

\* signer.sendTransaction(tx) answered with the pending transaction
\* (page.tsx 195-200)
SendResolved(j, hash) ==
  /\ j \in Jobs(transfers) /\ j.pc = "send"
  /\ txStatus' = StatusSubmitted
  /\ txHash' = hash
  /\ transfers' = Add(Remove(transfers, j), [j EXCEPT !.pc = "wait"])
  /\ UNCHANGED <<environment, walletChain, account, connected, error, balance,
                 networkError, recipientAddress, amount, isLoading,
                 transactions, connects, refreshes, fetches, effects>>

\* the end of sendTransaction after getBalance returned (page.tsx 206-214)
TransferDone(j) ==
  /\ amount' = <<>>
  /\ recipientAddress' = <<>>
  /\ isLoading' = FALSE
  /\ transfers' = Remove(transfers, j)

\* transaction.wait() answered (page.tsx 200-204): getBalance(account) with
\* the account the call closed over
WaitResolved(j) ==
  /\ j \in Jobs(transfers) /\ j.pc = "wait"
  /\ txStatus' = StatusConfirmed
  /\ IF hasProvider
     THEN /\ transfers' = Add(Remove(transfers, j), [j EXCEPT !.pc = "network"])
          /\ UNCHANGED <<amount, recipientAddress, isLoading>>
     ELSE TransferDone(j)
  /\ UNCHANGED <<environment, walletChain, account, connected, error, balance,
                 networkError, txHash, transactions, connects, refreshes,
                 fetches, effects>>

\* Mutant of TransferRejected: the finally block does not release isLoading
TransferRejectedKeepsBusy(j, err) ==
  /\ j \in Jobs(transfers) /\ j.pc \in {"getSigner", "send", "wait"}
  /\ error' = ErrorText(err, TransactionFailedMsg)
  /\ txStatus' = StatusFailed
  /\ transfers' = Remove(transfers, j)
  /\ UNCHANGED <<environment, walletChain, account, connected, balance,
                 networkError, recipientAddress, amount, isLoading, txHash,
                 transactions, connects, refreshes, fetches, effects>>

\* getSigner(), sendTransaction(tx) or wait() failed
TransferRejected(j, err) ==
  /\ j \in Jobs(transfers) /\ j.pc \in {"getSigner", "send", "wait"}
  /\ TransferFailed(j, err)
  /\ UNCHANGED <<environment, walletChain, account, connected, balance,
                 networkError, recipientAddress, amount, txHash, transactions,
                 connects, refreshes, fetches, effects>>

\* getNetwork() of the transfer's getBalance answered
TransferNetworkResolved(j) ==
  /\ j \in Jobs(transfers) /\ j.pc = "network"
  /\ IF WrongNetwork
     THEN /\ networkError' = WrongNetworkMsg
          /\ TransferDone(j)
     ELSE /\ networkError' = networkError
          /\ transfers' = Add(Remove(transfers, j), [j EXCEPT !.pc = "balance"])
          /\ UNCHANGED <<amount, recipientAddress, isLoading>>
  /\ UNCHANGED <<environment, walletChain, account, connected, error, balance,
                 txStatus, txHash, transactions, connects, refreshes, fetches,
                 effects>>

\* getBalance(address) of the transfer's getBalance answered with wei
TransferBalanceResolved(j, wei) ==
  /\ j \in Jobs(transfers) /\ j.pc = "balance"
  /\ j.account # Undefined
  /\ balance' = DisplayBalance(wei)
  /\ networkError' = ""
  /\ TransferDone(j)
  /\ UNCHANGED <<environment, walletChain, account, connected, error,
                 txStatus, txHash, transactions, connects, refreshes, fetches,
                 effects>>

\* getNetwork() or getBalance(address) of the transfer's getBalance failed
TransferBalanceRejected(j) ==
  /\ j \in Jobs(transfers) /\ j.pc \in {"network", "balance"}
  /\ balance' = <<"E", "r", "r", "o", "r">>
  /\ TransferDone(j)
  /\ UNCHANGED <<environment, walletChain, account, connected, error,
                 networkError, txStatus, txHash, transactions, connects,
                 refreshes, fetches, effects>>

\* ------------------------------------------------------------------------
\* getLastTransactions (page.tsx 280-305) after its awaits

\* what the explorer answers: data.status and data.result
ExplorerReplies ==
  {[status |-> "1", isArray |-> TRUE, result |-> r] : r \in RawResults}
    \cup {[status |-> "0", isArray |-> TRUE, result |-> <<RawTx1>>],
          [status |-> "1", isArray |-> FALSE, result |-> <<>>]}

\* Mutant of FetchResolved: the fetched records are appended to the history
FetchResolvedMerges(j, data) ==
  /\ j \in Jobs(fetches)
  /\ fetches' = Remove(fetches, j)
  /\ transactions' = IF data.status = "1" /\ data.isArray
                        /\ ~FormatThrows(data.result)
                     THEN transactions \o FormatTxs(data.result)
                     ELSE transactions
  /\ UNCHANGED <<environment, walletChain, account, connected, error, balance,
                 networkError, recipientAddress, amount, isLoading, txStatus,
                 txHash, connects, refreshes, transfers, effects>>

\* fetch and response.json() answered with `data`; an exception of the mapping
\* is caught at line 302
FetchResolved(j, data) ==
  /\ j \in Jobs(fetches)
  /\ fetches' = Remove(fetches, j)
  /\ transactions' = IF data.status = "1" /\ data.isArray
                        /\ ~FormatThrows(data.result)
                     THEN FormatTxs(data.result)
                     ELSE transactions
  /\ UNCHANGED <<environment, walletChain, account, connected, error, balance,
                 networkError, recipientAddress, amount, isLoading, txStatus,
                 txHash, connects, refreshes, transfers, effects>>

\* fetch or response.json() failed
FetchRejected(j) ==
  /\ j \in Jobs(fetches)
  /\ fetches' = Remove(fetches, j)
  /\ UNCHANGED <<environment, walletChain, slots, connects, refreshes,
                 transfers, effects>>

\* ------------------------------------------------------------------------
\* Mounting and unmounting of the page

\* the page is unmounted: the cleanups of the effects run (page.tsx 246-254,
\* 267-271); the state of the component is discarded, and what the calls
\* still suspended write afterwards reaches no state
Unmount ==
  /\ mounted
  /\ mounted' = FALSE
  /\ listeners' = IF hasProvider THEN listeners \ {account} ELSE listeners
  /\ intervals' = IF TimerOn(connected, account)
                  THEN intervals \ {account}
                  ELSE intervals
  /\ account' = ""
  /\ connected' = FALSE
  /\ error' = ""
  /\ balance' = <<"0">>
  /\ networkError' = ""
  /\ recipientAddress' = <<>>
  /\ amount' = <<>>
  /\ isLoading' = FALSE
  /\ txStatus' = ""
  /\ txHash' = ""
  /\ transactions' = <<>>
  /\ connects' = EmptyBag
  /\ refreshes' = EmptyBag
  /\ transfers' = EmptyBag
  /\ fetches' = EmptyBag
  /\ UNCHANGED <<hasProvider, scanKey, walletChain>>

\* the page is mounted again: a fresh component with the useState defaults
\* (page.tsx 51-61) whose effects run for the first time (page.tsx 241-244,
\* 260, 275); the wallet may have moved to another chain in the meantime
Mount ==
  /\ ~mounted
  /\ mounted' = TRUE
  /\ walletChain' \in WalletChains
  /\ listeners' = IF hasProvider THEN listeners \cup {account} ELSE listeners
  /\ intervals' = IF TimerOn(connected, account)
                  THEN intervals \cup {account}
                  ELSE intervals
  /\ UNCHANGED <<hasProvider, scanKey, slots, calls>>

\* ------------------------------------------------------------------------
\* Specification

\* every step but those of the history fetch
NextNoHistory ==
  \/ ConnectWalletNoProvider
  \/ ConnectWallet
  \/ \E j \in Jobs(connects) : SwitchResolved(j)
  \/ \E j \in Jobs(connects), code \in SwitchCodes : SwitchRejected(j, code)
  \/ \E j \in Jobs(connects), chain \in WalletChains : AddResolved(j, chain)
  \/ \E j \in Jobs(connects) : AddRejected(j)
  \/ \E j \in Jobs(connects), accounts \in AccountLists :
       RequestAccountsResolved(j, accounts)
  \/ \E j \in Jobs(connects), err \in Thrown : RequestAccountsRejected(j, err)
  \/ \E accounts \in AccountLists : handleAccountsChanged(accounts)
  \/ \E chain \in WalletChains, closed \in listeners :
       handleChainChanged(chain, closed)
  \/ \E a \in intervals : Tick(a)
  \/ \E j \in Jobs(refreshes) : GetNetworkResolved(j)
  \/ \E j \in Jobs(refreshes) : GetNetworkRejected(j)
  \/ \E j \in Jobs(refreshes), wei \in ChainBalances : GetBalanceResolved(j, wei)
  \/ \E j \in Jobs(refreshes) : GetBalanceRejected(j)
  \/ \E text \in Recipients : setRecipientAddress(text)
  \/ \E text \in Amounts : setAmount(text)
  \/ sendTransaction
  \/ \E j \in Jobs(transfers) : GetSignerResolved(j)
  \/ \E j \in Jobs(transfers), hash \in TxHashes : SendResolved(j, hash)
  \/ \E j \in Jobs(transfers) : WaitResolved(j)
  \/ \E j \in Jobs(transfers), err \in Thrown : TransferRejected(j, err)
  \/ \E j \in Jobs(transfers) : TransferNetworkResolved(j)
  \/ \E j \in Jobs(transfers), wei \in ChainBalances : TransferBalanceResolved(j, wei)
  \/ \E j \in Jobs(transfers) : TransferBalanceRejected(j)
  \/ Unmount
  \/ Mount

NextHistory ==
  \/ \E j \in Jobs(fetches), data \in ExplorerReplies : FetchResolved(j, data)
  \/ \E j \in Jobs(fetches) : FetchRejected(j)

Next == NextNoHistory \/ NextHistory

\* The page built without an explorer API key: getLastTransactions returns at
\* line 284 and no fetch is ever in flight.  The history fetch reads and
\* writes nothing but `transactions`, so this is the whole behaviour of every
\* other slot.
InitNoKey == Init /\ ~scanKey
Spec == InitNoKey /\ [][NextNoHistory]_vars

\* The page built with an explorer API key
InitKey == Init /\ scanKey
SpecHistory == InitKey /\ [][Next]_vars

\* the wallet or the node answers the request a sendTransaction call awaits;
\* the success of the balance query is not listed: wherever it can happen the
\* failure can too, and it ends the call, so the fairness condition below
\* demands the same with or without it
TransferAnswered ==
  \E j \in Jobs(transfers) :
    \/ GetSignerResolved(j)
    \/ \E hash \in TxHashes : SendResolved(j, hash)
    \/ WaitResolved(j)
    \/ \E err \in Thrown : TransferRejected(j, err)
    \/ TransferNetworkResolved(j)
    \/ TransferBalanceRejected(j)

\* The page without an explorer API key, with every request of a transfer
\* answered eventually
SpecLive == InitNoKey /\ [][NextNoHistory]_vars /\ WF_vars(TransferAnswered)

\* ------------------------------------------------------------------------
\* Claims

ValidationMessages == {InvalidRecipientMsg, InvalidAmountMsg,
                       AmountNotPositiveMsg, InsufficientBalanceMsg}
ErrorBalance == <<"E", "r", "r", "o", "r">>
\* the transfer calls that this step put at `pc`
Arrived(pc) == {j \in Jobs(transfers') : j.pc = pc /\ j \notin Jobs(transfers)}
\* the transfer calls that this step took away from `pc`
Left(pc) == {j \in Jobs(transfers) : j.pc = pc /\ j \notin Jobs(transfers')}

\* C1: a submission that fails validation never reaches the signer (no
\* sendTransaction call is left suspended at getSigner or at the send) and
\* writes nothing but the error slot, which receives the validation message.
C1_RejectedSubmitOnlyWritesError ==
  [][(sendTransaction /\ validateTransaction # "")
       => /\ transfers' = transfers
          /\ error' = validateTransaction
          /\ error' \in ValidationMessages
          /\ UNCHANGED <<environment, walletChain, account, connected, balance,
                         networkError, recipientAddress, amount, isLoading,
                         txStatus, txHash, transactions, connects, refreshes,
                         fetches, effects>>]_vars

\* C1 witness: a submission was rejected for its amount exceeding the balance
\* and nothing is in flight or was ever submitted.
C1_Witness ==
  /\ error = InsufficientBalanceMsg
  /\ transfers = EmptyBag
  /\ txStatus = ""
  /\ ~isLoading

\* C2: the steps of one transfer are ordered: a call starts (at getSigner)
\* only in a step in which validation of the current inputs passes; the send
\* request is issued only by a call that awaited getSigner; the hash is
\* recorded only in the step in which the wallet accepts the send, which is
\* the only step that starts the wait; while a call waits for confirmation or
\* refreshes the balance a hash is recorded; and the status becomes
\* "confirmed" only in the step in which the wait succeeds.
C2_TransferStepsOrdered ==
  [][/\ \A j \in Arrived("getSigner") :
          /\ validateTransaction = ""
          /\ j.recipientAddress = recipientAddress /\ j.amount = amount
          /\ Left("getSigner") = {}
     /\ \A j \in Arrived("send") :
          [j EXCEPT !.pc = "getSigner"] \in Left("getSigner")
     /\ \A j \in Arrived("wait") :
          [j EXCEPT !.pc = "send"] \in Left("send") /\ txHash' # ""
     /\ (txHash' # txHash /\ txHash' # "") => Arrived("wait") # {}
     /\ \A j \in Jobs(transfers') :
          j.pc \in {"wait", "network", "balance"} => txHash' # ""
     /\ \A j \in Arrived("network") :
          [j EXCEPT !.pc = "wait"] \in Left("wait")
     /\ (txStatus' = StatusConfirmed /\ txStatus # StatusConfirmed)
          => Left("wait") # {} /\ Arrived("network") # {}]_vars

\* C2 witness: a transfer whose wait succeeded, with its hash recorded, is
\* refreshing the balance.
C2_Witness ==
  /\ txStatus = StatusConfirmed
  /\ txHash # ""
  /\ \E j \in Jobs(transfers) : j.pc = "network"

\* C3 (as claimed): every call of sendTransaction, whatever its outcome,
\* leaves the status slot without a terminal status and the hash slot empty.
C3_SubmitDiscardsTerminalState ==
  [][sendTransaction
       => txStatus' \notin {StatusConfirmed, StatusFailed} /\ txHash' = ""]_vars

\* C4 (as claimed): the balance refresh a confirmed transfer starts queries
\* the account that is the active account when it starts, whenever the
\* session has one.
C4_ConfirmedRefreshQueriesActiveAccount ==
  [][\A j \in Arrived("network") :
       account \in Addresses => j.account = account]_vars

\* C5: handling accountsChanged with an empty list leaves the session
\* disconnected, without an account and with the balance "0".
C5_EmptyAccountsResetsSession ==
  [][handleAccountsChanged(<<>>)
       => ~connected' /\ account' = "" /\ balance' = <<"0">>]_vars

\* C5 witness: the session was reset while a transfer, which only a connected
\* session with a sufficient balance can start, is still in flight.
C5_Witness ==
  /\ ~connected
  /\ account = ""
  /\ balance = <<"0">>
  /\ transfers # EmptyBag

\* C6: handling chainChanged with another chain id records the mismatch
\* message, zeroes the balance slot, starts no refresh and leaves connected
\* and account alone; with the required chain id it clears the network error
\* and starts a balance refresh exactly when an account is set, for that
\* account.
C6_ChainChangedEffects ==
  [][\A chain \in WalletChains, closed \in listeners :
       handleChainChanged(chain, closed)
         => /\ UNCHANGED <<connected, account>>
            /\ IF ChainText(chain) # ConfigChainId
               THEN /\ networkError' = WrongNetworkMsg
                    /\ balance' = <<"0">>
                    /\ refreshes' = refreshes
               ELSE /\ networkError' = ""
                    /\ balance' = balance
                    /\ IF Truthy(account)
                       THEN refreshes' =
                              Add(refreshes, [address |-> account, pc |-> "network"])
                       ELSE refreshes' = refreshes]_vars

\* C6 witness: a connected session on the wrong chain with the mismatch
\* recorded and the balance zeroed while a transfer is in flight.
C6_Witness ==
  /\ connected
  /\ account \in Addresses
  /\ walletChain # RequiredChainNumber
  /\ networkError = WrongNetworkMsg
  /\ balance = <<"0">>
  /\ \E j \in Jobs(transfers) : j.pc = "wait" /\ j.account = account

\* C7: connected turns from false to true only in the step in which
\* eth_requestAccounts of a connectWallet call is granted.
C7_ConnectedOnlyByGrant ==
  [][(~connected /\ connected')
       => \E j \in Jobs(connects), accounts \in AccountLists :
            /\ j.pc = "request"
            /\ RequestAccountsResolved(j, accounts)]_vars

\* C7 witness: a connected session with its history fetched.
C7_Witness == connected /\ transactions # <<>>

\* C8: on a page that stays mounted, connected turns from true to false only
\* when eth_requestAccounts of a connectWallet call is rejected or when
\* accountsChanged brings an empty list.
C8_DisconnectedOnlyByRejectOrEmptyAccounts ==
  [][(connected /\ ~connected' /\ mounted')
       => \/ \E j \in Jobs(connects), err \in Thrown :
               RequestAccountsRejected(j, err)
          \/ handleAccountsChanged(<<>>)]_vars

\* C8 witness: a session that went through a failed balance refresh, a
\* wrong-network refresh or event, and a failed transfer, and is still
\* connected.
C8_Witness ==
  /\ connected
  /\ balance = ErrorBalance
  /\ networkError = WrongNetworkMsg
  /\ txStatus = StatusFailed
  /\ fetches = EmptyBag

\* number of connectWallet calls of `bag` suspended at `pc`
CallsAt(bag, pc) ==
  BagCardinality([j \in {x \in Jobs(bag) : x.pc = pc} |-> bag[j]])
RequestCall == ConnectCall("request", NoCode)
\* j ended checkAndSwitchNetwork in this step, one way or the other
NetworkStepEnds(j) ==
  \/ SwitchResolved(j)
  \/ \E code \in SwitchCodes \ {UnknownChainCode} : SwitchRejected(j, code)
  \/ \E chain \in WalletChains : AddResolved(j, chain)
  \/ AddRejected(j)

\* C9: with a wallet present, connectWallet starts with the network switch;
\* however checkAndSwitchNetwork ends, the call goes on to eth_requestAccounts
\* without touching connected, account or error; a grant leaves the session
\* connected with the first returned address as account, the error cleared, a
\* balance refresh for that address started and the network error as it was;
\* a rejection leaves it disconnected with the message recorded.
C9_ConnectDecidedByAccountRequest ==
  [][/\ ConnectWallet => ConnectCall("switch", NoCode) \in Jobs(connects')
     /\ \A j \in Jobs(connects) :
          /\ NetworkStepEnds(j)
               => /\ RequestCall \in Jobs(connects')
                  /\ BagCardinality(connects') = BagCardinality(connects)
                  /\ UNCHANGED <<connected, account, error>>
          /\ \A accounts \in AccountLists :
               RequestAccountsResolved(j, accounts)
                 => /\ connected'
                    /\ accounts # <<>> => account' = accounts[1]
                    /\ error' = ""
                    /\ networkError' = networkError
                    /\ refreshes' = Add(refreshes, [address |-> account',
                                                    pc |-> "network"])
          /\ \A err \in Thrown :
               RequestAccountsRejected(j, err)
                 => /\ ~connected'
                    /\ error' # ""
                    /\ error' = IF err.isError THEN err.message
                                ELSE UnknownErrorMsg]_vars

\* C9 witness: the network switch failed and the session is nevertheless
\* connected, the failure still recorded and the balance refresh in flight.
C9_Witness ==
  /\ connected
  /\ account \in Addresses
  /\ error = ""
  /\ networkError = SwitchFailedMsg
  /\ [address |-> account, pc |-> "network"] \in Jobs(refreshes)

\* C10: checkAndSwitchNetwork registers the chain only while it holds a switch
\* error with the "network unknown" code; it records the switch-failed message
\* when the switch fails with another code or the registration fails, and in
\* no other step does that message appear; it clears the network error when
\* the switch or the registration succeeds and leaves it alone while the
\* registration is pending; a call issues a switch request only when it
\* starts and a registration only in place of its switch request; and in
\* every case the call goes on to eth_requestAccounts with connected and
\* error untouched.
C10_SwitchThenRegister ==
  [][/\ \A j \in Jobs(connects') : j.pc = "add" => j.code = UnknownChainCode
     /\ \A j \in Jobs(connects) :
          /\ SwitchResolved(j)
               => networkError' = "" /\ RequestCall \in Jobs(connects')
          /\ \A code \in SwitchCodes :
               SwitchRejected(j, code)
                 => IF code = UnknownChainCode
                    THEN /\ networkError' = networkError
                         /\ CallsAt(connects', "add") = CallsAt(connects, "add") + 1
                    ELSE /\ networkError' = SwitchFailedMsg
                         /\ RequestCall \in Jobs(connects')
          /\ \A chain \in WalletChains :
               AddResolved(j, chain)
                 => networkError' = "" /\ RequestCall \in Jobs(connects')
          /\ AddRejected(j)
               => networkError' = SwitchFailedMsg /\ RequestCall \in Jobs(connects')
          /\ (NetworkStepEnds(j) \/ SwitchRejected(j, UnknownChainCode))
               => /\ UNCHANGED <<connected, error>>
                  /\ BagCardinality(connects') = BagCardinality(connects)
     /\ (networkError' = SwitchFailedMsg /\ networkError # SwitchFailedMsg)
          => \E j \in Jobs(connects) :
               \/ \E code \in SwitchCodes \ {UnknownChainCode} :
                    SwitchRejected(j, code)
               \/ AddRejected(j)
     /\ CallsAt(connects', "switch") > CallsAt(connects, "switch")
          => BagCardinality(connects') = BagCardinality(connects) + 1
     /\ CallsAt(connects', "add") > CallsAt(connects, "add")
          => /\ CallsAt(connects', "switch") = CallsAt(connects, "switch") - 1
             /\ BagCardinality(connects') = BagCardinality(connects)]_vars

\* C10 witness: a call whose registration fallback failed goes on to
\* eth_requestAccounts with the switch-failed message recorded.
C10_Witness ==
  /\ networkError = SwitchFailedMsg
  /\ ~connected
  /\ error = ""
  /\ RequestCall \in Jobs(connects)

\* the balance slot holds a number: a display value or "0"
NumericBalance(text) == ParseUnits(text, EtherDecimals).ok
\* a getBalance call, detached or inside a transfer, got an answer in this step
RefreshQuerySucceeds ==
  \/ \E j \in Jobs(refreshes), wei \in ChainBalances : GetBalanceResolved(j, wei)
  \/ \E j \in Jobs(transfers), wei \in ChainBalances :
       TransferBalanceResolved(j, wei)

\* C11: a getBalance call that finds the wallet on another network records
\* the mismatch message, ends without a balance query and leaves the balance
\* slot as it was; one whose network lookup or balance query fails writes
\* "Error" to the balance slot and leaves the network error alone; one whose
\* query succeeds writes the formatted number and clears the network error,
\* and no other step writes a number other than "0" to the balance slot; in
\* every case the caller goes on as after a normal return: connected, error
\* and the transfer status are untouched, and a transfer ends released.
C11_RefreshErrorsStayInside ==
  [][/\ \A j \in Jobs(refreshes) :
          /\ GetNetworkResolved(j)
               => /\ balance' = balance
                  /\ IF WrongNetwork
                     THEN /\ networkError' = WrongNetworkMsg
                          /\ refreshes' = Remove(refreshes, j)
                     ELSE /\ networkError' = networkError
                          /\ [j EXCEPT !.pc = "balance"] \in Jobs(refreshes')
          /\ (GetNetworkRejected(j) \/ GetBalanceRejected(j))
               => /\ balance' = ErrorBalance
                  /\ networkError' = networkError
                  /\ refreshes' = Remove(refreshes, j)
          /\ \A wei \in ChainBalances :
               GetBalanceResolved(j, wei)
                 => /\ balance' = DisplayBalance(wei)
                    /\ NumericBalance(balance')
                    /\ networkError' = ""
          /\ (\/ GetNetworkResolved(j) \/ GetNetworkRejected(j)
              \/ GetBalanceRejected(j)
              \/ \E wei \in ChainBalances : GetBalanceResolved(j, wei))
               => UNCHANGED <<connected, account, error, txStatus, isLoading>>
     /\ \A j \in Jobs(transfers) :
          /\ TransferNetworkResolved(j)
               => /\ balance' = balance
                  /\ IF WrongNetwork
                     THEN networkError' = WrongNetworkMsg /\ Left("network") = {j}
                             /\ Arrived("balance") = {}
                     ELSE networkError' = networkError
          /\ TransferBalanceRejected(j)
               => balance' = ErrorBalance /\ networkError' = networkError
          /\ \A wei \in ChainBalances :
               TransferBalanceResolved(j, wei)
                 => balance' = DisplayBalance(wei) /\ networkError' = ""
          /\ (\/ TransferNetworkResolved(j) \/ TransferBalanceRejected(j)
              \/ \E wei \in ChainBalances : TransferBalanceResolved(j, wei))
               => /\ UNCHANGED <<connected, account, error, txStatus>>
                  /\ txStatus = StatusConfirmed
                  /\ transfers' = Remove(transfers, j) => ~isLoading'
     /\ (balance' # balance /\ NumericBalance(balance') /\ balance' # <<"0">>)
          => RefreshQuerySucceeds]_vars

\* C11 witness: a refresh found the wallet on another network: the mismatch is
\* recorded and the balance slot still shows the number of an earlier query.
C11_Witness ==
  /\ connected
  /\ networkError = WrongNetworkMsg
  /\ NumericBalance(balance) /\ balance # <<"0">>
  /\ refreshes = EmptyBag /\ transfers = EmptyBag /\ connects = EmptyBag

\* C12: at most one balance interval is installed; one is installed exactly
\* when the page is mounted and connected with a non-empty account, and it
\* closed over that account; a step that changes the account, disconnects or
\* unmounts leaves none of the intervals that were installed before it, and
\* so does every step that installs one; a tick starts a balance refresh for
\* the account its interval closed over, which is the current account.
C12_OneOwnedInterval ==
  /\ [](/\ Cardinality(intervals) <= 1
        /\ intervals # {} <=> (mounted /\ TimerOn(connected, account))
        /\ intervals \subseteq {account})
  /\ [][/\ (\/ account' # account
            \/ connected /\ ~connected'
            \/ mounted /\ ~mounted'
            \/ intervals' \ intervals # {})
             => intervals \cap intervals' = {}
        /\ \A a \in intervals :
             Tick(a) => /\ a = account
                        /\ intervals' = intervals
                        /\ refreshes' = Add(refreshes, [address |-> account,
                                                        pc |-> "network"])]_vars

\* C12 witness: after the account changed, the one interval installed is the
\* new account's, and a refresh for that account runs on the required chain
\* with the balance of an earlier refresh shown.
C12_Witness ==
  /\ connected
  /\ account = "0xa2"
  /\ intervals = {"0xa2"}
  /\ [address |-> "0xa2", pc |-> "balance"] \in Jobs(refreshes)
  /\ NumericBalance(balance) /\ balance # <<"0">>

\* C13: with a wallet present, at most one pair of accountsChanged and
\* chainChanged handlers is registered: while the page is mounted exactly the
\* pair that closed over the current account, and none once it is unmounted.
C13_OneListenerPair ==
  hasProvider
    => /\ Cardinality(listeners) <= 1
       /\ mounted => listeners = {account}
       /\ ~mounted => listeners = {}

\* C13 witness: the page was unmounted with a wallet present and no handler
\* is left registered.
C13_Witness == hasProvider /\ ~mounted /\ listeners = {}

\* an explorer reply getLastTransactions cannot use
UnusableReply(data) ==
  \/ data.status # "1"
  \/ ~data.isArray
  \/ \E i \in 1..Len(data.result) : data.result[i] = RawTxBad

\* C14: a history fetch that ends with a reply that is no success, with a
\* payload that cannot be mapped or with a failed request leaves the history
\* as it was; a fetch that ends with a usable reply makes the history exactly
\* the mapped records of the reply; no end of a fetch touches error,
\* networkError or any other slot; while the page stays mounted the history
\* changes in no other step; a fetch starts only in a step after which the
\* session is connected with a non-empty account and in which either the
\* account changed or the session became connected, for that account, and a
\* tick of the balance interval starts none.
C14_HistoryFetch ==
  [][/\ \A j \in Jobs(fetches) \ Jobs(fetches') :
          /\ \A data \in ExplorerReplies :
               FetchResolved(j, data)
                 => /\ transactions' = IF UnusableReply(data)
                                       THEN transactions
                                       ELSE FormatTxs(data.result)
                    /\ UNCHANGED <<error, networkError, account, connected,
                                   balance, txStatus, txHash, isLoading>>
          /\ FetchRejected(j)
               => UNCHANGED <<transactions, error, networkError, account,
                              connected, balance, txStatus, txHash, isLoading>>
     /\ (transactions' # transactions /\ mounted')
          => \E j \in Jobs(fetches), data \in ExplorerReplies :
               ~UnusableReply(data) /\ FetchResolved(j, data)
     /\ BagCardinality(fetches') > BagCardinality(fetches)
          => /\ connected' /\ Truthy(account')
             /\ account' # account \/ ~connected
             /\ fetches' = Add(fetches, [address |-> account'])
     /\ \A a \in intervals : Tick(a) => fetches' = fetches]_vars

\* C14 witness: the history fetched for the second account is shown and no
\* fetch is in flight.
C14_Witness ==
  /\ connected
  /\ account = "0xa2"
  /\ transactions = FormatTxs(<<RawTx1>>)
  /\ fetches = EmptyBag
  /\ error = "" /\ networkError = ""

\* C15 (as claimed): a submission leaves in the error slot the message of the
\* first failing check in the order recipient, amount parses, amount positive,
\* amount within the balance, and nothing when all pass; the invalid-amount
\* message appears only when the amount text itself does not parse.
C15_ValidateFirstFailingCheck ==
  [][sendTransaction
       => LET amountWei == ParseUnits(amount, WeiDecimals)
          IN /\ ~IsAddress(recipientAddress) => error' = InvalidRecipientMsg
             /\ (IsAddress(recipientAddress) /\ ~amountWei.ok)
                  => error' = InvalidAmountMsg
             /\ (IsAddress(recipientAddress) /\ amountWei.ok /\ LeqZero(amountWei))
                  => error' = AmountNotPositiveMsg
             /\ (/\ IsAddress(recipientAddress) /\ amountWei.ok
                 /\ ~LeqZero(amountWei) /\ NumericBalance(balance))
                  => error' = IF BigGreater(amountWei,
                                            ParseUnits(balance, EtherDecimals))
                              THEN InsufficientBalanceMsg
                              ELSE ""
             /\ error' = InvalidAmountMsg => ~amountWei.ok]_vars

\* C16: on a mounted page at most one sendTransaction call is in flight, and
\* isLoading is true exactly while one is; the call in flight works with the
\* recipient and the amount the inputs still show; a call starts only when
\* none is in flight and validation passes, and it sets isLoading; while
\* isLoading stays true the recipient and the amount do not change; and
\* isLoading is released only with the status confirmed or failed, or by the
\* page being unmounted.
C16_OneTransferInFlight ==
  /\ [](/\ BagCardinality(transfers) <= 1
        /\ isLoading <=> transfers # EmptyBag
        /\ \A j \in Jobs(transfers) :
             j.recipientAddress = recipientAddress /\ j.amount = amount)
  /\ [][/\ Arrived("getSigner") # {}
             => /\ transfers = EmptyBag
                /\ ~isLoading /\ isLoading'
                /\ validateTransaction = ""
        /\ Arrived("send") # {} => BagCardinality(transfers') = 1
        /\ (isLoading /\ isLoading')
             => UNCHANGED <<recipientAddress, amount>>
        /\ isLoading => ~sendTransaction
        /\ (isLoading /\ ~isLoading')
             => txStatus' \in {StatusConfirmed, StatusFailed} \/ ~mounted']_vars

\* C16 witness: the one transfer in flight has its send request at the wallet
\* and the inputs still show what it sends.
C16_Witness ==
  /\ isLoading
  /\ connected
  /\ txStatus = StatusConfirmInWallet
  /\ recipientAddress = ValidRecipient /\ amount = <<"1">>
  /\ \E j \in Jobs(transfers) :
       j.pc = "send" /\ TxRequest(j).to = recipientAddress

\* C17: when the wallet and the node answer every request, a transfer in
\* flight leads to a state with isLoading released and the status confirmed
\* or failed (unless the page is unmounted first); a confirmed status of a
\* transfer in flight is not replaced; the step that releases isLoading
\* either leaves the status confirmed, the inputs cleared and the error slot
\* untouched, or is the failure of a request, which leaves the status failed,
\* the inputs as they were and the reason in the error slot.
C17_TransferTerminates ==
  /\ isLoading ~> (/\ ~isLoading
                   /\ txStatus \in {StatusConfirmed, StatusFailed} \/ ~mounted)
  /\ [][/\ (isLoading /\ isLoading' /\ txStatus = StatusConfirmed)
             => txStatus' = StatusConfirmed
        /\ (isLoading /\ ~isLoading' /\ mounted')
             => \/ /\ txStatus = StatusConfirmed /\ txStatus' = StatusConfirmed
                   /\ recipientAddress' = <<>> /\ amount' = <<>>
                   /\ error' = error
                \/ /\ txStatus # StatusConfirmed /\ txStatus' = StatusFailed
                   /\ UNCHANGED <<recipientAddress, amount>>
                   /\ error' # ""
                   /\ \E j \in Jobs(transfers), err \in Thrown :
                        /\ TransferRejected(j, err)
                        /\ error' = IF err.isError THEN err.message
                                    ELSE TransactionFailedMsg]_vars

\* C17 witness: a transfer failed with a reason that is no Error: the generic
\* message is recorded, isLoading is released and the inputs are preserved.
C17_Witness ==
  /\ txStatus = StatusFailed
  /\ error = TransactionFailedMsg
  /\ ~isLoading /\ transfers = EmptyBag
  /\ recipientAddress = ValidRecipient /\ amount = <<"1">>

\* C18 (as claimed): the session is connected exactly when the account slot
\* holds a non-empty address.
C18_ConnectedIffAccount == connected <=> Truthy(account)

\* C19 (as claimed): while the session stays disconnected with an empty
\* account, as an empty accountsChanged list leaves it, a balance slot that
\* shows "0" keeps showing "0", whatever getBalance calls are still in flight.
C19_LateBalanceDiscarded ==
  [][(/\ ~connected /\ account = "" /\ balance = <<"0">>
      /\ ~connected' /\ account' = "")
       => balance' = <<"0">>]_vars

\* C20 (as claimed): after chainChanged reported another network while a
\* balance refresh was waiting for its query (so the mismatch message is
\* recorded, the balance slot shows "0" and the wallet is on the other
\* network), every step that leaves the wallet on that network and is no step
\* of connectWallet leaves the message recorded and the balance slot at "0".
C20_MismatchOutlivesLateRefresh ==
  [][(/\ WrongNetwork /\ walletChain' = walletChain
      /\ networkError = WrongNetworkMsg /\ balance = <<"0">>
      /\ \E j \in Jobs(refreshes) : j.pc = "balance"
      /\ connects' = connects /\ mounted')
       => networkError' = WrongNetworkMsg /\ balance' = <<"0">>]_vars

====
